---------------------------- MODULE Spec2Model ----------------------------
(***************************************************************************)
(* State-machine model of src/src/CommandQueue.h (SizedQueue,              *)
(*                                                                         *)
(* SimpleCounter, MessageQueue) and of the send/acknowledge loop of        *)
(* src/src/main.cpp of the ESP32 CNC pendant.                              *)
(*                                                                         *)
(* Each part is modelled under its own specification:                      *)
(*   Spec              a SizedQueue<LEN_LINES, LEN_BYTES, MAX_LINE_LEN>    *)
(*   SpecSimpleCounter a SimpleCounter<LEN_LINES, LEN_BYTES, SUFFIX_LEN>   *)
(*   SpecMessageQueue  a MessageQueue<Tag, SIZE, MAX_LINE_LEN>             *)
(*   SpecCounters      a SizedQueue and a SimpleCounter called together    *)
(*   SpecLoop          loop() of main.cpp against a peer on PrinterSerial  *)
(*   SpecLoopFair      SpecLoop with loop() and the peer scheduled fairly  *)
(*                                                                         *)
(* The record store is the FreeRTOS message buffer the classes call        *)
(* (xMessageBufferCreateStatic / Send / Receive / Reset).  Its behaviour   *)
(* is the one FreeRTOS documents: every message is stored behind a length  *)
(* word of sizeof(size_t) bytes, a statically created buffer of N bytes    *)
(* holds at most N-1 bytes, xMessageBufferSend returns the number of       *)
(* payload bytes written (0 when the message does not fit, and 0 for a     *)
(* message of 0 bytes), xMessageBufferReceive returns the length of the    *)
(* message it copied out (0 when there is none).                           *)
(*                                                                         *)
(* size_t values are modelled as integers: a value below 0 in the model is *)
(* a wrapped value in the program.                                         *)
(***************************************************************************)
EXTENDS Integers, Sequences, FiniteSets, TLC

VARIABLES
    tp,              \* the template arguments of the instantiation
    \* ---- SizedQueue (CommandQueue.h 102-111)
    buf,             \* the message buffer: the records it holds, oldest first
    freeLines,
    freeBytes,
    peekedLine,      \* char peekedLine[]: the bytes last received into it
    peekedLineLen,
    havePeekedLine,
    assertFailed,    \* assert() of push failed: the program was aborted
    last,            \* the last call on the SizedQueue and what it returned
    fifo,            \* history: records accepted by push and not yet popped
    \* ---- SimpleCounter (CommandQueue.h 175-177)
    queue,           \* etl::queue<size_t, LEN_LINES>
    sc_freeBytes,
    sc_last,
    \* ---- MessageQueue (CommandQueue.h 252-263)
    mq_buf,
    tags,            \* etl::queue<Tag*, SENDER_QUEUE_SIZE>
    itemCount,
    bytesCount,
    peekedData,
    peekedLen,
    havePeekedData,
    mq_last,
    \* ---- main.cpp
    pc,              \* the function loop() calls next
    sendQ,           \* commandQueue: the commands waiting to be sent
    ackQ,            \* commandQueue: the commands sent and awaiting a response
    issued,          \* how many commands processEnc has pushed
    sent,            \* the commands printed to PrinterSerial, in order
    answered,        \* how many of them the peer has answered
    infoLines,       \* how many informational lines the peer has sent
    rx,              \* PrinterSerial: the characters received and not yet read
    serialResponse,  \* static String serialResponse of receiveResponses
    lineLog,         \* history: the lines of the last receiveResponses call,
                     \* each with the number of popAcknowledge calls it made
    acked            \* history: how many "ok"/"error" lines were read

sqVars == <<buf, freeLines, freeBytes, peekedLine, peekedLineLen,
            havePeekedLine, assertFailed, last, fifo>>
scVars == <<queue, sc_freeBytes, sc_last>>
mqVars == <<mq_buf, tags, itemCount, bytesCount, peekedData, peekedLen,
            havePeekedData, mq_last>>
loopVars == <<pc, sendQ, ackQ, issued, sent, answered, infoLines, rx,
              serialResponse, lineLog, acked>>
vars == <<tp, sqVars, scVars, mqVars, loopVars>>

---------------------------------------------------------------------------
(* Bounds of the model and the inputs.                                     *)

\* Longest message handed to push (longer than every MAX_LINE_LEN below).
MaxPushLen == 8

\* Longest message handed to MessageQueue::push.
MaxMessageLen == 1

\* The tags of the first DistinctTags entries of the tag FIFO are chosen
\* freely among Tags; the entries behind them all carry the first tag.
DistinctTags == 3

\* The first byte of a message tells messages of one length apart.
Bytes == {1, 2}

\* The template arguments the model instantiates SizedQueue and
\* SimpleCounter with (the defaults 16, 128, 100 are out of reach of an
\* exhaustive search).  The first is the instantiation of the admission
\* example; the second holds LEN_LINES records at once.
Instantiations ==
    { [LEN_LINES |-> 3, LEN_BYTES |-> 10, MAX_LINE_LEN |-> 7],
      [LEN_LINES |-> 3, LEN_BYTES |-> 16, MAX_LINE_LEN |-> 3] }

LEN_LINES == tp.LEN_LINES
LEN_BYTES == tp.LEN_BYTES
MAX_LINE_LEN == tp.MAX_LINE_LEN

\* A message of n bytes whose first byte is b.
MsgOf(b, n) == [i \in 1..n |-> IF i = 1 THEN b ELSE 10 + i]

PushInputs == { MsgOf(b, n) : b \in Bytes, n \in 0..MaxPushLen }

\* What the members the constructors leave uninitialised may hold.
UninitLens == {0, 2}
UninitData == { <<>>, <<0, 0>> }

Min(a, b) == IF a < b THEN a ELSE b

RECURSIVE SumLens(_, _)
\* Sum over the records of s of (length + extra).
SumLens(s, extra) ==
    IF s = <<>> THEN 0 ELSE Len(Head(s)) + extra + SumLens(Tail(s), extra)

---------------------------------------------------------------------------
(* The record store: a FreeRTOS message buffer.                            *)

\* sbBYTES_TO_STORE_MESSAGE_LENGTH: sizeof(size_t) on the ESP32.
StoreFraming == 4

\* Bytes a statically created buffer of `size` bytes can hold.
StoreUsable(size) == size - 1

StoreBytes(s) == SumLens(s, StoreFraming)

\* xMessageBufferSend(buf, msg, len, 0): the possible outcomes, each the
\* buffer afterwards and the returned number of bytes.  A message of 0
\* bytes returns 0 whether or not its length word was stored.
xMessageBufferSend(s, size, msg) ==
    IF StoreBytes(s) + Len(msg) + StoreFraming > StoreUsable(size)
    THEN { [buf |-> s, sent |-> 0] }
    ELSE IF Len(msg) = 0
         THEN { [buf |-> s, sent |-> 0], [buf |-> Append(s, msg), sent |-> 0] }
         ELSE { [buf |-> Append(s, msg), sent |-> Len(msg)] }

\* xMessageBufferReceive(buf, dst, maxLen, 0): the buffer afterwards, the
\* returned length and the bytes copied out.  A message longer than maxLen
\* is left in the buffer; a lone length word of 0 is not read.
xMessageBufferReceive(s, maxLen) ==
    IF s = <<>> \/ Len(Head(s)) > maxLen \/ (Len(Head(s)) = 0 /\ Len(s) = 1)
    THEN [buf |-> s, len |-> 0, data |-> <<>>]
    ELSE [buf |-> Tail(s), len |-> Len(Head(s)), data |-> Head(s)]

\* xMessageBufferReset(buf)
xMessageBufferReset(s) == <<>>

---------------------------------------------------------------------------
(* SizedQueue                                                              *)

\* SizedQueue(): freeLines, freeBytes and the buffer are set; peekedLine,
\* peekedLineLen and havePeekedLine are not.
SizedQueue_Init ==
    /\ freeLines = LEN_LINES
    /\ freeBytes = LEN_BYTES
    /\ buf = <<>>
    /\ havePeekedLine \in BOOLEAN
    /\ peekedLineLen \in UninitLens
    /\ peekedLine \in UninitData
    /\ assertFailed = FALSE
    /\ last = [op |-> "new", ok |-> TRUE, len |-> 0, msg |-> <<>>, again |-> FALSE,
               prev |-> "new"]
    /\ fifo = <<>>

Called(op, ok, len, msg) ==
    [op |-> op, ok |-> ok, len |-> len, msg |-> msg, again |-> last.op = op,
     prev |-> last.op]

size == LEN_LINES - freeLines

getFreeLines == freeLines

bytes == LEN_BYTES - freeBytes

getFreeBytes == freeBytes

\* A canPush that forgets the record slots.
canPush_NoLineCheck(len) ==
    LET l == IF len > MAX_LINE_LEN THEN MAX_LINE_LEN ELSE len
    IN  freeBytes > l + 1

canPush(len) ==
    LET l == IF len > MAX_LINE_LEN THEN MAX_LINE_LEN ELSE len
    IN  freeBytes > l + 1 /\ freeLines > 0

\* A clear that forgets the peek cache.
SizedQueue_clear_KeepsCache ==
    /\ ~assertFailed
    /\ buf' = xMessageBufferReset(buf)
    /\ freeLines' = LEN_LINES
    /\ freeBytes' = LEN_BYTES
    /\ last' = Called("clear", TRUE, 0, <<>>)
    /\ fifo' = <<>>
    /\ UNCHANGED <<peekedLine, peekedLineLen, havePeekedLine, assertFailed>>

SizedQueue_clear ==
    /\ ~assertFailed
    /\ buf' = xMessageBufferReset(buf)
    /\ havePeekedLine' = FALSE
    /\ peekedLineLen' = 0
    /\ freeLines' = LEN_LINES
    /\ freeBytes' = LEN_BYTES
    /\ last' = Called("clear", TRUE, 0, <<>>)
    /\ fifo' = <<>>
    /\ UNCHANGED <<peekedLine, assertFailed>>

SizedQueue_push(msg) ==
    /\ ~assertFailed
    /\ IF ~canPush(Len(msg))
       THEN /\ last' = Called("push", FALSE, 0, <<>>)
            /\ UNCHANGED <<buf, freeLines, freeBytes, peekedLine, peekedLineLen,
                           havePeekedLine, assertFailed, fifo>>
       ELSE LET len == IF Len(msg) > MAX_LINE_LEN THEN MAX_LINE_LEN ELSE Len(msg)
                data == SubSeq(msg, 1, len)
            IN  \E r \in xMessageBufferSend(buf, LEN_BYTES, data) :
                  /\ buf' = r.buf
                  /\ IF r.sent = 0
                     THEN /\ assertFailed' = TRUE
                          /\ last' = Called("push", FALSE, 0, <<>>)
                          /\ UNCHANGED <<freeLines, freeBytes, fifo>>
                     ELSE /\ freeLines' = freeLines - 1
                          /\ freeBytes' = freeBytes - (len + 1)
                          /\ last' = Called("push", TRUE, 0, <<>>)
                          /\ fifo' = Append(fifo, data)
                          /\ UNCHANGED assertFailed
                  /\ UNCHANGED <<peekedLine, peekedLineLen, havePeekedLine>>

\* A loadLineFromBuf that forgets to mark the cache as filled.
loadLineFromBuf_FlagNotSet ==
    LET r == xMessageBufferReceive(buf, MAX_LINE_LEN)
    IN  [buf |-> r.buf,
         peekedLine |-> IF r.len > 0 THEN r.data ELSE <<>>,
         peekedLineLen |-> r.len,
         havePeekedLine |-> FALSE]

\* A loadLineFromBuf that counts the terminating 0 into the length.
loadLineFromBuf_CountsTerminator ==
    LET r == xMessageBufferReceive(buf, MAX_LINE_LEN)
    IN  [buf |-> r.buf,
         peekedLine |-> IF r.len > 0 THEN r.data ELSE <<>>,
         peekedLineLen |-> r.len + 1,
         havePeekedLine |-> r.len > 0]

\* loadLineFromBuf(): the members it assigns.
loadLineFromBuf ==
    LET r == xMessageBufferReceive(buf, MAX_LINE_LEN)
    IN  [buf |-> r.buf,
         peekedLine |-> IF r.len > 0 THEN r.data ELSE <<>>,
         peekedLineLen |-> r.len,
         havePeekedLine |-> r.len > 0]

SizedQueue_peek ==
    /\ ~assertFailed
    /\ IF size = 0
       THEN /\ last' = Called("peek", TRUE, 0, <<>>)
            /\ UNCHANGED <<buf, peekedLine, peekedLineLen, havePeekedLine>>
       ELSE IF ~havePeekedLine
            THEN LET l == loadLineFromBuf
                 IN  /\ buf' = l.buf
                     /\ peekedLine' = l.peekedLine
                     /\ peekedLineLen' = l.peekedLineLen
                     /\ havePeekedLine' = l.havePeekedLine
                     /\ last' = Called("peek", TRUE, l.peekedLineLen, l.peekedLine)
            ELSE /\ last' = Called("peek", TRUE, peekedLineLen, peekedLine)
                 /\ UNCHANGED <<buf, peekedLine, peekedLineLen, havePeekedLine>>
    /\ UNCHANGED <<freeLines, freeBytes, assertFailed, fifo>>

\* A pop without the test for an empty queue.
SizedQueue_pop_NoEmptyCheck ==
    /\ ~assertFailed
    /\ last' = Called("pop", TRUE, 0, <<>>)
    /\ fifo' = IF fifo = <<>> THEN fifo ELSE Tail(fifo)
    /\ freeLines' = freeLines + 1
    /\ IF havePeekedLine
       THEN /\ freeBytes' = freeBytes + (peekedLineLen + 1)
            /\ havePeekedLine' = FALSE
            /\ peekedLineLen' = 0
            /\ UNCHANGED <<buf, peekedLine>>
       ELSE LET r == xMessageBufferReceive(buf, MAX_LINE_LEN)
            IN  /\ buf' = r.buf
                /\ peekedLine' = IF r.len > 0 THEN r.data ELSE peekedLine
                /\ freeBytes' = freeBytes + (r.len + 1)
                /\ UNCHANGED <<peekedLineLen, havePeekedLine>>
    /\ UNCHANGED assertFailed

SizedQueue_pop ==
    /\ ~assertFailed
    /\ last' = Called("pop", TRUE, 0, <<>>)
    /\ fifo' = IF fifo = <<>> THEN fifo ELSE Tail(fifo)
    /\ IF size = 0
       THEN UNCHANGED <<buf, freeLines, freeBytes, peekedLine, peekedLineLen,
                        havePeekedLine>>
       ELSE /\ freeLines' = freeLines + 1
            /\ IF havePeekedLine
               THEN /\ freeBytes' = freeBytes + (peekedLineLen + 1)
                    /\ havePeekedLine' = FALSE
                    /\ peekedLineLen' = 0
                    /\ UNCHANGED <<buf, peekedLine>>
               ELSE LET r == xMessageBufferReceive(buf, MAX_LINE_LEN)
                    IN  /\ buf' = r.buf
                        /\ peekedLine' = IF r.len > 0 THEN r.data ELSE peekedLine
                        /\ freeBytes' = freeBytes + (r.len + 1)
                        /\ UNCHANGED <<peekedLineLen, havePeekedLine>>
    /\ UNCHANGED assertFailed

---------------------------------------------------------------------------
(* SimpleCounter                                                           *)

\* The template default of SUFFIX_LEN.
SUFFIX_LEN == 1

\* Lengths handed to SimpleCounter::push (it takes no MAX_LINE_LEN).
PushLens == 0..MaxPushLen

SimpleCounter_Init ==
    /\ queue = <<>>
    /\ sc_freeBytes = LEN_BYTES
    /\ sc_last = [op |-> "new", ok |-> TRUE, len |-> 0]

SimpleCounter_size == Len(queue)

SimpleCounter_getFreeLines == LEN_LINES - Len(queue)

SimpleCounter_bytes == LEN_BYTES - sc_freeBytes

SimpleCounter_canPush(len) ==
    Len(queue) < LEN_LINES /\ sc_freeBytes >= len + SUFFIX_LEN

SimpleCounter_clear ==
    /\ queue' = <<>>
    /\ sc_freeBytes' = LEN_BYTES
    /\ sc_last' = [op |-> "clear", ok |-> TRUE, len |-> 0]

SimpleCounter_push(len) ==
    IF ~SimpleCounter_canPush(len)
    THEN /\ sc_last' = [op |-> "push", ok |-> FALSE, len |-> len]
         /\ UNCHANGED <<queue, sc_freeBytes>>
    ELSE /\ queue' = Append(queue, len)
         /\ sc_freeBytes' = sc_freeBytes - (len + SUFFIX_LEN)
         /\ sc_last' = [op |-> "push", ok |-> TRUE, len |-> len]

SimpleCounter_peek ==
    /\ sc_last' = [op |-> "peek", ok |-> TRUE,
                   len |-> IF Len(queue) = 0 THEN 0 ELSE Head(queue)]
    /\ UNCHANGED <<queue, sc_freeBytes>>

\* A pop that refunds the length without the suffix.
SimpleCounter_pop_NoSuffix ==
    /\ sc_last' = [op |-> "pop", ok |-> TRUE, len |-> 0]
    /\ IF Len(queue) = 0
       THEN UNCHANGED <<queue, sc_freeBytes>>
       ELSE LET v == Head(queue)
            IN  /\ queue' = Tail(queue)
                /\ sc_freeBytes' = sc_freeBytes + v

SimpleCounter_pop ==
    /\ sc_last' = [op |-> "pop", ok |-> TRUE, len |-> 0]
    /\ IF Len(queue) = 0
       THEN UNCHANGED <<queue, sc_freeBytes>>
       ELSE LET v == Head(queue)
            IN  /\ queue' = Tail(queue)
                /\ sc_freeBytes' = sc_freeBytes + (v + SUFFIX_LEN)

---------------------------------------------------------------------------
(* MessageQueue                                                            *)

\* The template argument SIZE the model instantiates MessageQueue with.
SIZE == 20

SENDER_QUEUE_SIZE == 50

\* The template default of MessageQueue's MAX_LINE_LEN.
MQ_MAX_LINE_LEN == 100

Tags == {"T1", "T2", "T3"}

\* struct Message: data, len, tag.  The messages handed to push.
Messages ==
    { [data |-> MsgOf(1, n), len |-> n, tag |-> t] :
        n \in 0..MaxMessageLen,
        t \in IF Len(tags) < DistinctTags THEN Tags ELSE {"T1"} }

\* MessageQueue(): itemCount and the buffer are set; bytesCount, peekedData,
\* peekedLen and havePeekedData are not.
MessageQueue_Init ==
    /\ itemCount = 0
    /\ mq_buf = <<>>
    /\ tags = <<>>
    /\ bytesCount \in UninitLens
    /\ peekedData \in UninitData
    /\ peekedLen \in UninitLens
    /\ havePeekedData \in BOOLEAN
    /\ mq_last = [op |-> "new", ok |-> TRUE, len |-> 0, data |-> <<>>, tag |-> "none"]

tags_available == SENDER_QUEUE_SIZE - Len(tags)

count == itemCount

available == SIZE - bytesCount

isEmpty == itemCount = 0

MessageQueue_canPush(len) == len + 1 < available /\ tags_available > 0

MessageQueue_clear ==
    /\ mq_buf' = xMessageBufferReset(mq_buf)
    /\ itemCount' = 0
    /\ bytesCount' = 0
    /\ havePeekedData' = FALSE
    /\ mq_last' = [op |-> "clear", ok |-> TRUE, len |-> 0, data |-> <<>>, tag |-> "none"]
    /\ UNCHANGED <<tags, peekedData, peekedLen>>

\* A push that enqueues the tag whatever the message buffer answers.
MessageQueue_push_TagAlways(msg) ==
    IF tags_available = 0
    THEN /\ mq_last' = [op |-> "push", ok |-> FALSE, len |-> 0, data |-> <<>>, tag |-> "none"]
         /\ UNCHANGED <<mq_buf, tags, itemCount, bytesCount, peekedData,
                        peekedLen, havePeekedData>>
    ELSE \E r \in xMessageBufferSend(mq_buf, SIZE, SubSeq(msg.data, 1, msg.len)) :
           /\ mq_buf' = r.buf
           /\ tags' = Append(tags, msg.tag)
           /\ mq_last' = [op |-> "push", ok |-> r.sent # 0, len |-> 0,
                          data |-> <<>>, tag |-> "none"]
           /\ UNCHANGED <<itemCount, bytesCount, peekedData, peekedLen,
                          havePeekedData>>

MessageQueue_push(msg) ==
    IF tags_available = 0
    THEN /\ mq_last' = [op |-> "push", ok |-> FALSE, len |-> 0, data |-> <<>>, tag |-> "none"]
         /\ UNCHANGED <<mq_buf, tags, itemCount, bytesCount, peekedData,
                        peekedLen, havePeekedData>>
    ELSE \E r \in xMessageBufferSend(mq_buf, SIZE, SubSeq(msg.data, 1, msg.len)) :
           /\ mq_buf' = r.buf
           /\ tags' = IF r.sent # 0 THEN Append(tags, msg.tag) ELSE tags
           /\ mq_last' = [op |-> "push", ok |-> r.sent # 0, len |-> 0,
                          data |-> <<>>, tag |-> "none"]
           /\ UNCHANGED <<itemCount, bytesCount, peekedData, peekedLen,
                          havePeekedData>>

\* loadFromBuffer(): the members it assigns.
loadFromBuffer ==
    LET r == xMessageBufferReceive(mq_buf, MQ_MAX_LINE_LEN)
    IN  [buf |-> r.buf,
         peekedData |-> IF r.len > 0 THEN r.data ELSE peekedData,
         peekedLen |-> r.len,
         havePeekedData |-> IF r.len = 0 THEN havePeekedData ELSE TRUE]

MessageQueue_peek ==
    IF itemCount = 0
    THEN /\ mq_last' = [op |-> "peek", ok |-> FALSE, len |-> 0, data |-> <<>>, tag |-> "none"]
         /\ UNCHANGED <<mq_buf, tags, itemCount, bytesCount, peekedData,
                        peekedLen, havePeekedData>>
    ELSE LET l == IF havePeekedData
                  THEN [buf |-> mq_buf, peekedData |-> peekedData,
                        peekedLen |-> peekedLen, havePeekedData |-> TRUE]
                  ELSE loadFromBuffer
         IN  \* tags.front() of an empty etl::queue is undefined: any tag.
             \E t \in (IF tags = <<>> THEN Tags ELSE {Head(tags)}) :
               /\ mq_buf' = l.buf
               /\ peekedData' = l.peekedData
               /\ peekedLen' = l.peekedLen
               /\ havePeekedData' = l.havePeekedData
               /\ mq_last' = [op |-> "peek", ok |-> TRUE, len |-> l.peekedLen,
                              data |-> l.peekedData, tag |-> t]
               /\ UNCHANGED <<tags, itemCount, bytesCount>>

MessageQueue_pop ==
    IF itemCount = 0
    THEN /\ mq_last' = [op |-> "pop", ok |-> FALSE, len |-> 0, data |-> <<>>, tag |-> "none"]
         /\ UNCHANGED <<mq_buf, tags, itemCount, bytesCount, peekedData,
                        peekedLen, havePeekedData>>
    ELSE LET l == IF havePeekedData
                  THEN [buf |-> mq_buf, peekedData |-> peekedData,
                        peekedLen |-> peekedLen, havePeekedData |-> TRUE]
                  ELSE loadFromBuffer
         IN  /\ mq_buf' = l.buf
             /\ peekedData' = l.peekedData
             /\ peekedLen' = l.peekedLen
             /\ itemCount' = itemCount - 1
             /\ bytesCount' = bytesCount - l.peekedLen
             /\ tags' = IF tags = <<>> THEN tags ELSE Tail(tags)
             /\ havePeekedData' = FALSE
             /\ mq_last' = [op |-> "pop", ok |-> TRUE, len |-> 0, data |-> <<>>, tag |-> "none"]

---------------------------------------------------------------------------
(* main.cpp: the send/acknowledge loop.                                    *)
(*                                                                         *)
(* commandQueue is a CommandQueue<>, a class main.cpp uses and             *)
(* CommandQueue.h does not define.  It is modelled as the two FIFOs its    *)
(* calls name: push appends a command to the commands waiting to be sent,  *)
(* peekSend returns the oldest of them (the empty String when there is     *)
(* none), popSend moves it to the commands awaiting a response,            *)
(* isAckEmpty tells whether any command awaits a response and              *)
(* popAcknowledge removes the oldest of those.                             *)
(*                                                                         *)
(* A String is the sequence of its characters.  The peer writes whole      *)
(* lines to PrinterSerial; the host port Serial is idle, so the            *)
(* pass-through at the end of loop() forwards nothing.                     *)

\* How many commands the encoder produces.
MaxCommands == 3

\* How many informational lines the peer sends.
MaxInfoLines == 2

\* The empty String, which peekSend returns when no command waits.
NoCommand == 0

NewLine == "\n"

Ok == <<"o", "k">>

Error == <<"e", "r", "r", "o", "r">>

\* The lines with which the peer answers a command.
ReplyLines == { Ok, Error }

\* A line of the peer that answers no command (a status report).
InfoLine == <<"<", "I", "d", "l", "e", ">">>

\* String::startsWith(prefix, offset).
startsWith(str, prefix, offset) ==
    /\ offset + Len(prefix) <= Len(str)
    /\ SubSeq(str, offset + 1, offset + Len(prefix)) = prefix

\* static int lineStartPos = 0, never assigned again.
lineStartPos == 0

Loop_Init ==
    /\ pc = "processEnc"
    /\ sendQ = <<>>
    /\ ackQ = <<>>
    /\ issued = 0
    /\ sent = <<>>
    /\ answered = 0
    /\ infoLines = 0
    /\ rx = <<>>
    /\ serialResponse = <<>>
    /\ lineLog = <<>>
    /\ acked = 0

\* ---- CommandQueue<>
CommandQueue_push(q, command) == Append(q, command)

peekSend == IF sendQ = <<>> THEN NoCommand ELSE Head(sendQ)

isAckEmpty == ackQ = <<>>

popSend ==
    IF sendQ = <<>>
    THEN [sendQ |-> sendQ, ackQ |-> ackQ]
    ELSE [sendQ |-> Tail(sendQ), ackQ |-> Append(ackQ, Head(sendQ))]

popAcknowledge(q) == IF q = <<>> THEN q ELSE Tail(q)

\* ---- processEnc(): a turn of the encoder since the last call pushes one
\* jog command (the commands are numbered in the order they are pushed).
processEnc ==
    /\ pc = "processEnc"
    /\ \E encMoved \in BOOLEAN :
         IF encMoved /\ issued < MaxCommands
         THEN /\ sendQ' = CommandQueue_push(sendQ, issued + 1)
              /\ issued' = issued + 1
         ELSE UNCHANGED <<sendQ, issued>>
    /\ pc' = "sendCommands"
    /\ UNCHANGED <<ackQ, sent, answered, infoLines, rx, serialResponse,
                   lineLog, acked>>

\* ---- sendCommands()
sendCommands ==
    /\ pc = "sendCommands"
    /\ LET command == peekSend
       IN  IF command # NoCommand /\ isAckEmpty
           THEN /\ sent' = Append(sent, command)
                /\ sendQ' = popSend.sendQ
                /\ ackQ' = popSend.ackQ
           ELSE UNCHANGED <<sent, sendQ, ackQ>>
    /\ pc' = "receiveResponses"
    /\ UNCHANGED <<issued, answered, infoLines, rx, serialResponse, lineLog,
                   acked>>

\* ---- receiveResponses(): the while loop, one character per round.  st
\* holds serialResponse (resp) and the acknowledgment FIFO (ack), and as
\* history the characters of the line being read (line), the lines ended
\* (log) and the number of them that begin with "ok" or "error" (acked).
RECURSIVE receiveLoop(_, _)
receiveLoop(chars, st) ==
    IF chars = <<>>
    THEN st
    ELSE LET ch == Head(chars)
             isOk == startsWith(st.resp, Ok, lineStartPos)
             isError == startsWith(st.resp, Error, 0)
             pops == IF isOk \/ isError THEN 1 ELSE 0
             isReply == startsWith(st.line, Ok, 0) \/ startsWith(st.line, Error, 0)
         IN  IF ch # NewLine
             THEN receiveLoop(Tail(chars),
                      [st EXCEPT !.resp = Append(@, ch),
                                 !.line = Append(@, ch)])
             ELSE receiveLoop(Tail(chars),
                      [st EXCEPT !.ack = IF pops = 1 THEN popAcknowledge(@) ELSE @,
                                 !.log = Append(@, [line |-> st.line, pops |-> pops]),
                                 !.acked = IF isReply THEN @ + 1 ELSE @,
                                 !.line = <<>>])

receiveResponses ==
    /\ pc = "receiveResponses"
    /\ LET st == receiveLoop(rx, [resp |-> serialResponse, ack |-> ackQ,
                                  line |-> <<>>, log |-> <<>>, acked |-> acked])
       IN  /\ serialResponse' = st.resp
           /\ ackQ' = st.ack
           /\ lineLog' = st.log
           /\ acked' = st.acked
    /\ rx' = <<>>
    /\ pc' = "processEnc"
    /\ UNCHANGED <<sendQ, issued, sent, answered, infoLines>>

\* ---- loop(): processEnc, sendCommands, receiveResponses in turn.
loop == processEnc \/ sendCommands \/ receiveResponses

\* ---- the peer answers the oldest command it has not answered yet with
\* one line beginning with "ok" or "error" ...
PeerReply ==
    /\ answered < Len(sent)
    /\ \E reply \in ReplyLines : rx' = rx \o reply \o <<NewLine>>
    /\ answered' = answered + 1
    /\ UNCHANGED <<pc, sendQ, ackQ, issued, sent, infoLines, serialResponse,
                   lineLog, acked>>

\* ... and sends informational lines when it likes.
PeerInfo ==
    /\ infoLines < MaxInfoLines
    /\ rx' = rx \o InfoLine \o <<NewLine>>
    /\ infoLines' = infoLines + 1
    /\ UNCHANGED <<pc, sendQ, ackQ, issued, sent, answered, serialResponse,
                   lineLog, acked>>

---------------------------------------------------------------------------
(* Specifications.  An object a specification does not exercise stays as   *)
(* constructed in zero-initialised storage.                                *)

SizedQueue_Static ==
    /\ SizedQueue_Init
    /\ havePeekedLine = FALSE
    /\ peekedLineLen = 0
    /\ peekedLine = <<>>

MessageQueue_Static ==
    /\ MessageQueue_Init
    /\ bytesCount = 0
    /\ peekedData = <<>>
    /\ peekedLen = 0
    /\ havePeekedData = FALSE

\* ---- a SizedQueue under any sequence of calls
Init ==
    /\ tp \in Instantiations
    /\ Loop_Init
    /\ SizedQueue_Init
    /\ SimpleCounter_Init
    /\ MessageQueue_Static

Clear == SizedQueue_clear /\ UNCHANGED <<tp, scVars, mqVars, loopVars>>

Push == \E msg \in PushInputs : SizedQueue_push(msg) /\ UNCHANGED <<tp, scVars, mqVars, loopVars>>

Peek == SizedQueue_peek /\ UNCHANGED <<tp, scVars, mqVars, loopVars>>

Pop == SizedQueue_pop /\ UNCHANGED <<tp, scVars, mqVars, loopVars>>

Next == Clear \/ Push \/ Peek \/ Pop

Spec == Init /\ [][Next]_vars

\* ---- a SimpleCounter under any sequence of calls
InitSimpleCounter ==
    /\ tp \in Instantiations
    /\ Loop_Init
    /\ SizedQueue_Static
    /\ SimpleCounter_Init
    /\ MessageQueue_Static

CounterClear == SimpleCounter_clear /\ UNCHANGED <<tp, sqVars, mqVars, loopVars>>

CounterPush == \E len \in PushLens : SimpleCounter_push(len) /\ UNCHANGED <<tp, sqVars, mqVars, loopVars>>

CounterPeek == SimpleCounter_peek /\ UNCHANGED <<tp, sqVars, mqVars, loopVars>>

CounterPop == SimpleCounter_pop /\ UNCHANGED <<tp, sqVars, mqVars, loopVars>>

NextSimpleCounter == CounterClear \/ CounterPush \/ CounterPeek \/ CounterPop

SpecSimpleCounter == InitSimpleCounter /\ [][NextSimpleCounter]_vars

\* ---- a MessageQueue under any sequence of calls (MessageQueue takes none
\* of the template arguments in tp: one instantiation is kept)
InitMessageQueue ==
    /\ tp \in Instantiations
    /\ tp.LEN_BYTES = 16
    /\ Loop_Init
    /\ SizedQueue_Static
    /\ SimpleCounter_Init
    /\ MessageQueue_Init

MessageClear == MessageQueue_clear /\ UNCHANGED <<tp, sqVars, scVars, loopVars>>

MessagePush == \E msg \in Messages : MessageQueue_push(msg) /\ UNCHANGED <<tp, sqVars, scVars, loopVars>>

MessagePeek == MessageQueue_peek /\ UNCHANGED <<tp, sqVars, scVars, loopVars>>

MessagePop == MessageQueue_pop /\ UNCHANGED <<tp, sqVars, scVars, loopVars>>

NextMessageQueue == MessageClear \/ MessagePush \/ MessagePeek \/ MessagePop

SpecMessageQueue == InitMessageQueue /\ [][NextMessageQueue]_vars

\* ---- loop() of main.cpp against the peer
InitLoop ==
    /\ tp \in Instantiations
    /\ tp.LEN_BYTES = 16
    /\ SizedQueue_Static
    /\ SimpleCounter_Init
    /\ MessageQueue_Static
    /\ Loop_Init

ProcessEnc == processEnc /\ UNCHANGED <<tp, sqVars, scVars, mqVars>>

SendCommands == sendCommands /\ UNCHANGED <<tp, sqVars, scVars, mqVars>>

ReceiveResponses == receiveResponses /\ UNCHANGED <<tp, sqVars, scVars, mqVars>>

Loop == loop /\ UNCHANGED <<tp, sqVars, scVars, mqVars>>

Reply == PeerReply /\ UNCHANGED <<tp, sqVars, scVars, mqVars>>

Info == PeerInfo /\ UNCHANGED <<tp, sqVars, scVars, mqVars>>

NextLoop == ProcessEnc \/ SendCommands \/ ReceiveResponses \/ Reply \/ Info

SpecLoop == InitLoop /\ [][NextLoop]_vars

\* loop() is called again and again, and the peer answers every command.
SpecLoopFair ==
    InitLoop /\ [][NextLoop]_vars /\ WF_vars(Loop) /\ WF_vars(Reply)

---------------------------------------------------------------------------
(* Properties of SizedQueue (specification Spec).                          *)

\* What push charges for a message of len bytes.
Charged(len) == Min(len, MAX_LINE_LEN) + 1

\* C1: in every reachable state 0 <= freeLines <= LEN_LINES and
\* 0 <= freeBytes <= LEN_BYTES, and size() is LEN_LINES - freeLines.
C1_CountersInRange ==
    /\ freeLines \in 0..LEN_LINES
    /\ freeBytes \in 0..LEN_BYTES
    /\ size \in 0..LEN_LINES
    /\ size = LEN_LINES - freeLines

\* C2: the used byte budget bytes() is the sum of (stored length + 1) over
\* the records pushed successfully and not yet popped.
C2_NoDrift == bytes = SumLens(fifo, 1)

\* C3: records leave in the order they were pushed: what peek returns is
\* the oldest record pushed successfully and not yet popped.
C3_FifoOrder ==
    (last.op = "peek" /\ fifo # <<>>)
        => (last.len = Len(Head(fifo)) /\ last.msg = Head(fifo))

\* C4: two consecutive peek calls, with no other call between them, return
\* the same length and the same content.
C4_PeekIdempotent ==
    [][ (last.op = "peek" /\ last'.op = "peek")
            => (last'.len = last.len /\ last'.msg = last.msg) ]_vars

\* C4 happens: a second peek in a row returned a record while a younger
\* record waits behind it.
C4_Witness ==
    /\ last.op = "peek"
    /\ last.again
    /\ last.len > 0
    /\ size > 1
    /\ ~assertFailed

\* C7: the message buffer never rejects a send that passed canPush, i.e.
\* the assertion of push never fails.
C7_SendNeverRejected == ~assertFailed

\* C9: a push that canPush admits returns true, appends exactly one record
\* to the store, takes 1 from freeLines and min(len, MAX_LINE_LEN) + 1 from
\* freeBytes.
C9_AdmittedPush ==
    [][ \A m \in PushInputs :
          (canPush(Len(m)) /\ SizedQueue_push(m))
            => /\ last'.ok
               /\ Len(buf') = Len(buf) + 1
               /\ freeLines' = freeLines - 1
               /\ freeBytes' = freeBytes - Charged(Len(m)) ]_vars

\* C10: a push that returns false changes neither counter, nor the stored
\* records, nor the peek cache; with LEN_LINES records buffered every push
\* returns false.
C10_RejectedPush ==
    [][ \A m \in PushInputs :
          SizedQueue_push(m)
            => /\ (~last'.ok /\ ~assertFailed')
                    => UNCHANGED <<freeLines, freeBytes, buf, peekedLine,
                                   peekedLineLen, havePeekedLine>>
               /\ size = LEN_LINES => (~last'.ok /\ ~assertFailed') ]_vars

\* C10 happens: a push was refused with LEN_LINES records buffered.
C10_Witness ==
    /\ last.op = "push"
    /\ ~last.ok
    /\ ~assertFailed
    /\ size = LEN_LINES
    /\ Len(fifo) = LEN_LINES

\* C11: a push of more than MAX_LINE_LEN bytes that canPush admits stores
\* exactly the first MAX_LINE_LEN bytes and charges MAX_LINE_LEN + 1; with
\* such a record the oldest, peek returns the length MAX_LINE_LEN and pop
\* refunds MAX_LINE_LEN + 1.
C11_Truncation ==
    [][ /\ \A m \in PushInputs :
             (Len(m) > MAX_LINE_LEN /\ canPush(Len(m)) /\ SizedQueue_push(m))
               => /\ last'.ok
                  /\ buf' = Append(buf, SubSeq(m, 1, MAX_LINE_LEN))
                  /\ freeBytes' = freeBytes - (MAX_LINE_LEN + 1)
        /\ (fifo # <<>> /\ Len(Head(fifo)) = MAX_LINE_LEN)
             => /\ SizedQueue_peek => last'.len = MAX_LINE_LEN
                /\ SizedQueue_pop
                     => freeBytes' = freeBytes + (MAX_LINE_LEN + 1) ]_vars

\* The records waiting in the queue, oldest first: the cached one, then
\* those in the message buffer, each with the length the queue holds for it.
Pending ==
    (IF havePeekedLine
     THEN << [len |-> peekedLineLen, data |-> peekedLine] >>
     ELSE <<>>)
    \o [i \in 1..Len(buf) |-> [len |-> Len(buf[i]), data |-> buf[i]]]

\* C12: draining by pop alone and by peek-then-pop are the same: peek
\* changes neither the waiting records nor the counters, and pop, after a
\* peek or not, removes the oldest waiting record, adds 1 to freeLines and
\* that record's length + 1 to freeBytes.
C12_DrainEquivalence ==
    [][ /\ SizedQueue_peek
             => (Pending' = Pending /\ UNCHANGED <<freeLines, freeBytes>>)
        /\ (size > 0 /\ SizedQueue_pop)
             => /\ Pending # <<>>
                /\ Pending' = Tail(Pending)
                /\ freeLines' = freeLines + 1
                /\ freeBytes' = freeBytes + Head(Pending).len + 1 ]_vars

\* C12 happens: a pop with no peek before it (it followed another pop)
\* removed a record from the message buffer and left records waiting.
C12_Witness ==
    /\ last.op = "pop"
    /\ last.prev = "pop"
    /\ fifo # <<>>
    /\ buf # <<>>
    /\ ~havePeekedLine
    /\ Len(peekedLine) > 0
    /\ peekedLine[1] \in Bytes

\* C13: clear sets freeLines to LEN_LINES and freeBytes to LEN_BYTES and
\* empties the store and the peek cache, and the peek after it returns 0.
C13_ClearResets ==
    [][ /\ SizedQueue_clear
             => /\ freeLines' = LEN_LINES
                /\ freeBytes' = LEN_BYTES
                /\ buf' = <<>>
                /\ ~havePeekedLine'
                /\ peekedLineLen' = 0
        /\ (last.op = "clear" /\ SizedQueue_peek) => last'.len = 0 ]_vars

\* C13 happens: a peek right after a clear returned 0 although the cache
\* buffer still holds the bytes of a record loaded before the clear.
C13_Witness ==
    /\ last.op = "peek"
    /\ last.prev = "clear"
    /\ last.len = 0
    /\ Len(peekedLine) > 0
    /\ peekedLine[1] \in Bytes

\* C18: the slot counter agrees with the store: the records in the message
\* buffer, plus one if a record is cached, number size().
C18_SizeMatchesStore ==
    ~assertFailed
      => Len(buf) + (IF havePeekedLine THEN 1 ELSE 0) = size

---------------------------------------------------------------------------
(* Both Counter variants behind the one interface: a client holding a      *)
(* SizedQueue and a SimpleCounter makes each Counter call on both.         *)

InitCounters ==
    /\ tp \in Instantiations
    /\ Loop_Init
    /\ SizedQueue_Init
    /\ SimpleCounter_Init
    /\ MessageQueue_Static

CountersClear ==
    SizedQueue_clear /\ SimpleCounter_clear /\ UNCHANGED <<tp, mqVars, loopVars>>

\* The records pushed to the pair: one record of each length.
CountersInputs == { MsgOf(1, n) : n \in 0..MaxPushLen }

CountersPush ==
    \E m \in CountersInputs :
        SizedQueue_push(m) /\ SimpleCounter_push(Len(m)) /\ UNCHANGED <<tp, mqVars, loopVars>>

CountersPeek ==
    SizedQueue_peek /\ SimpleCounter_peek /\ UNCHANGED <<tp, mqVars, loopVars>>

CountersPop ==
    SizedQueue_pop /\ SimpleCounter_pop /\ UNCHANGED <<tp, mqVars, loopVars>>

NextCounters == CountersClear \/ CountersPush \/ CountersPeek \/ CountersPop

SpecCounters == InitCounters /\ [][NextCounters]_vars

\* C17: on an empty queue (size() = 0) peek returns 0 and pop returns, and
\* neither changes freeLines, freeBytes, the store or the peek cache; for
\* SizedQueue and for SimpleCounter.
C17_EmptyHarmless ==
    [][ /\ size = 0
             => /\ SizedQueue_peek
                     => /\ last'.len = 0
                        /\ UNCHANGED <<freeLines, freeBytes, buf, peekedLine,
                                       peekedLineLen, havePeekedLine>>
                /\ SizedQueue_pop
                     => UNCHANGED <<freeLines, freeBytes, buf, peekedLine,
                                    peekedLineLen, havePeekedLine>>
        /\ SimpleCounter_size = 0
             => /\ SimpleCounter_peek
                     => (sc_last'.len = 0 /\ UNCHANGED <<queue, sc_freeBytes>>)
                /\ SimpleCounter_pop => UNCHANGED <<queue, sc_freeBytes>> ]_vars

\* C17 happens: both queues held records, were cleared, and pop was then
\* called on the empty queues.
C17_Witness ==
    /\ last.op = "pop"
    /\ last.prev = "clear"
    /\ sc_last.op = "pop"
    /\ size = 0
    /\ SimpleCounter_size = 0
    /\ Len(peekedLine) > 0
    /\ peekedLine[1] \in Bytes

---------------------------------------------------------------------------
(* Properties of the Counter variants (specification SpecSimpleCounter).   *)

\* The byte budget the queued lengths of SimpleCounter account for.
RECURSIVE SumCharged(_)
SumCharged(q) ==
    IF q = <<>> THEN 0 ELSE (Head(q) + SUFFIX_LEN) + SumCharged(Tail(q))

\* C19: SimpleCounter keeps size() <= LEN_LINES, 0 <= freeBytes <= LEN_BYTES
\* and LEN_BYTES - freeBytes = the sum of length + SUFFIX_LEN over the queued
\* lengths; peek returns the oldest queued length and changes nothing; pop
\* refunds exactly that length + SUFFIX_LEN.
C19_SimpleCounterBudget ==
    /\ [](/\ SimpleCounter_size <= LEN_LINES
          /\ sc_freeBytes \in 0..LEN_BYTES
          /\ SimpleCounter_bytes = SumCharged(queue))
    /\ [][ /\ (queue # <<>> /\ SimpleCounter_peek)
               => (sc_last'.len = Head(queue) /\ UNCHANGED <<queue, sc_freeBytes>>)
          /\ (queue # <<>> /\ SimpleCounter_pop)
               => /\ queue' = Tail(queue)
                  /\ sc_freeBytes' = sc_freeBytes + Head(queue) + SUFFIX_LEN ]_vars

\* C19 happens: a pop has just refunded the oldest of several queued
\* lengths, and lengths are still queued.
C19_Witness ==
    /\ sc_last.op = "pop"
    /\ queue # <<>>
    /\ Len(queue) = LEN_LINES - 1
    /\ SimpleCounter_bytes > 0


\* The admission rule of the Counter interface: a free slot, and a byte
\* budget strictly above the charged length.
CanPushRule(lines, budget, len) == lines > 0 /\ budget > Charged(len)

\* C8: for both Counter variants canPush(len) is true exactly when there is
\* a free record slot and freeBytes > min(len, MAX_LINE_LEN) + overhead.
C8_SameAdmission ==
    \A len \in PushLens :
      /\ canPush(len) <=> CanPushRule(getFreeLines, getFreeBytes, len)
      /\ SimpleCounter_canPush(len)
           <=> CanPushRule(SimpleCounter_getFreeLines, sc_freeBytes, len)

---------------------------------------------------------------------------
(* Properties of MessageQueue (specification SpecMessageQueue).            *)

\* C14: push is atomic over the record/tag pair: with the tag FIFO full it
\* returns false and changes neither the store nor the tag FIFO; when it
\* returns false no tag is enqueued; when it returns true exactly one record
\* and exactly one tag, those of the message, were enqueued.
C14_PushAtomic ==
    [][ \A m \in Messages :
          MessageQueue_push(m)
            => /\ tags_available = 0
                    => (~mq_last'.ok /\ UNCHANGED <<mq_buf, tags>>)
               /\ ~mq_last'.ok => tags' = tags
               /\ mq_last'.ok
                    => /\ tags' = Append(tags, m.tag)
                       /\ mq_buf' = Append(mq_buf, SubSeq(m.data, 1, m.len)) ]_vars

\* C14 happens: a push was refused by the store (the message buffer is full)
\* while the tag FIFO still had room.
C14_Witness ==
    /\ mq_last.op = "push"
    /\ ~mq_last.ok
    /\ tags_available > 0
    /\ tags # <<>>
    /\ StoreBytes(mq_buf) + StoreFraming + 1 > StoreUsable(SIZE)

\* C5: with tags waiting in the tag FIFO, peek reports the oldest tag and
\* leaves it there, and pop returns true and removes exactly that tag: tags
\* pushed as T1, T2, T3 come back as T1, T2, T3.
C5_TagOrder ==
    [][ tags # <<>>
          => /\ MessageQueue_peek
                  => (mq_last'.ok /\ mq_last'.tag = Head(tags) /\ tags' = tags)
             /\ MessageQueue_pop
                  => (mq_last'.ok /\ tags' = Tail(tags)) ]_vars

\* C6: the tag FIFO holds as many tags as count() reports records, and
\* isEmpty() is true exactly when the tag FIFO is empty.
C6_TagsMatchCount ==
    /\ Len(tags) = count
    /\ isEmpty <=> (tags = <<>>)

---------------------------------------------------------------------------
(* Properties of the send/acknowledge loop (SpecLoop, SpecLoopFair).       *)

\* C15: every line read by receiveResponses that begins with "ok" or with
\* "error" made exactly one popAcknowledge call, and every other line made
\* none, whatever lines were read before it.
C15_OnePopPerReplyLine ==
    \A i \in 1..Len(lineLog) :
        lineLog[i].pops =
            IF startsWith(lineLog[i].line, Ok, 0)
               \/ startsWith(lineLog[i].line, Error, 0)
            THEN 1 ELSE 0

\* The commands printed to the peer for which no line beginning with "ok"
\* or "error" has been read yet.
Outstanding == Len(sent) - acked

\* C16: at most one command is outstanding: a command is transmitted only
\* when one waits in the send queue and the acknowledgment queue is empty,
\* and in every state the commands sent and not yet acknowledged number 0
\* or 1.
C16_AtMostOneOutstanding ==
    /\ [](Outstanding \in {0, 1})
    /\ [][ sent' # sent => (sendQ # <<>> /\ ackQ = <<>>) ]_vars

\* C20: with a peer that answers every command with one "ok" or "error"
\* line, and loop() repeated fairly, every command pushed to the send
\* queue is eventually transmitted.
C20_EveryCommandSent ==
    \A c \in 1..MaxCommands : (issued >= c) ~> (Len(sent) >= c)

=============================================================================
